---- MODULE Spec2Model ----
(***************************************************************************)
(* The tool-calling reasoning loop of src/Testing/app.py (deep_agent) with *)
(* its collaborators call_openrouter, execute_tool and get_design_context. *)
(*                                                                         *)
(* One behaviour is one invocation of deep_agent.  The remote completion   *)
(* service is the environment: each of its responses is drawn from a       *)
(* bounded set when the response arrives.                                  *)
(***************************************************************************)
EXTENDS Integers, Sequences, FiniteSets, TLC

\* ------------------------------------------------------------------ bounds

\* Largest number of tool calls one model response requests.
MaxCalls == 2

\* --------------------------------------------------------- python values

\* Python's None where a string is expected.
None == "<None>"
\* A dictionary key that is not there.
Absent == "<absent>"

\* response.status_code of a successful completion (app.py line 51).
HTTP_OK == 200

OPENROUTER_MODEL == "openai/gpt-4o"

\* Status codes the completion service answers with.
StatusCodes == {HTTP_OK, 401, 429}
\* response.text of a non-success answer.
ErrorBodies == {"{\"error\": \"denied\"}", "upstream unavailable"}

\* What the caller passes as user_prompt.
Prompts == {"what is responsive design?", "get design data for frame X and summarize it"}

\* message["content"] of a completion: a text or null.
Contents == {"# Login Screen", None}

\* tool_call["id"].
Ids == {"call_a", "call_b"}
\* tool_call["function"]["name"]: the registered tool and one that is not.
ToolNames == {"get_design_context", "frobnicate"}
\* tool_call["function"]["arguments"]: the serialized argument payload.
ArgStrings ==
    { "{\"frame_id\": \"X\"}", "{\"frame_id\": \"Y\"}", "{}", "[1]", "{\"frame_id\": ",
      "{\"frame_id\": \"X\", \"zoom\": 2}" }

SeqsUpTo(S, n) == UNION { [1..k -> S] : k \in 0..n }

ToolCalls == [id : Ids, function : [name : ToolNames, arguments : ArgStrings]]

\* ------------------------------------------------------------- messages

\* A message dictionary.  tc_kind says whether the key "tool_calls" is
\* absent, holds null, or holds a list (tool_calls, possibly empty).
Msg(role, content, tool_call_id, tc_kind, tool_calls) ==
    [role |-> role, content |-> content, tool_call_id |-> tool_call_id,
     tc_kind |-> tc_kind, tool_calls |-> tool_calls]

SYSTEM_PROMPT ==
    "You are a design documentation AI. Use tools when required and generate clean markdown output."

\* Variant of SeedMessages that labels the caller's request.
SeedMessages_Labelled(user_prompt) ==
    << Msg("system", SYSTEM_PROMPT, Absent, "absent", <<>>),
       Msg("user", "User request: " \o user_prompt, Absent, "absent", <<>>) >>

SeedMessages(user_prompt) ==
    << Msg("system", SYSTEM_PROMPT, Absent, "absent", <<>>),
       Msg("user", user_prompt, Absent, "absent", <<>>) >>

\* The names TOOLS_SCHEMA advertises.
TOOLS_SCHEMA == << "get_design_context" >>

\* The assistant messages a first completion may carry.
FirstMessages ==
    { Msg("assistant", c, Absent, "absent", <<>>) : c \in Contents }
    \cup { Msg("assistant", c, Absent, "null", <<>>) : c \in Contents }
    \cup { Msg("assistant", c, Absent, "list", t) :
              c \in Contents, t \in SeqsUpTo(ToolCalls, MaxCalls) }

\* The assistant messages a second completion may carry: an answer, or
\* (against the tool-less request) one more tool call.
FinalMessages ==
    { Msg("assistant", c, Absent, "absent", <<>>) : c \in Contents }
    \cup { Msg("assistant", c, Absent, "list",
               << [id |-> "call_a",
                   function |-> [name |-> "get_design_context",
                                 arguments |-> "{\"frame_id\": \"X\"}"]] >>) :
              c \in Contents }

NoMessage == Msg(None, None, Absent, "absent", <<>>)

\* An HTTP response of the completion service.
Response(status_code, text, message) ==
    [status_code |-> status_code, text |-> text, message |-> message]

Responses(messages) ==
    { Response(HTTP_OK, "ok", m) : m \in messages }
    \cup { Response(s, b, NoMessage) : s \in StatusCodes \ {HTTP_OK}, b \in ErrorBodies }

\* ------------------------------------------------------------ exceptions

Raise(type, text) == [type |-> type, text |-> text]
NoError == Raise(None, None)

\* ---------------------------------------------------------------- state

VARIABLES
    pc,          \* where deep_agent is: "start", "await1", "dispatch", "await2",
                 \* "returned", "raised" ("idle" before /generate calls it)
    user_prompt, \* the argument of deep_agent
    messages,    \* the conversation list
    message,     \* response["choices"][0]["message"] of the first completion
    idx,         \* position of the for loop in message["tool_calls"]
    result,      \* the value deep_agent returned
    error,       \* the exception deep_agent raised
    modelCalls,  \* history: the payloads posted to the completion service
    responses,   \* history: the responses received from it
    toolLog      \* history: the execute_tool invocations

agentVars == << pc, user_prompt, messages, message, idx, result, error,
                modelCalls, responses, toolLog >>

\* State of the other components; the actions of deep_agent leave it alone.
VARIABLES
    heap,        \* concurrent requests: the list objects, by reference
    run,         \* concurrent requests: the locals of each deep_agent invocation
    figma_url,   \* FigmaUrlParser.parse_url: its argument
    parsed,      \* FigmaUrlParser.parse_url: the dictionary it returned
    extracted,   \* extract_figma_data (vision.py): the pair it returned, or raised
    mcp_call,    \* FigmaMCPClient.call_tool: its arguments and environment
    mcp_result   \* FigmaMCPClient.call_tool: the dictionary it returned

\* One request to an entry point of the link pipeline (main.py,
\* langchain_agent.py, figma_bridge.py, figma_mcp_tool.py).
VARIABLES
    request,     \* the entry point and its arguments
    frame,       \* where the handler is, and its locals
    effects,     \* history: operations chosen, Figma fetches, model calls, file writes
    returns      \* the values returned so far, the innermost handler's first

\* One request to the Flask route /generate (app.py 165-178).
VARIABLES
    exchange     \* the JSON body received, where the route is, and its answer

concVars == << heap, run >>
urlVars == << figma_url, parsed, extracted >>
mcpVars == << mcp_call, mcp_result >>
apiVars == << request, frame, effects, returns >>
flaskVars == << exchange >>
nonAgentVars == << concVars, urlVars, mcpVars, apiVars, flaskVars >>

vars == << agentVars, nonAgentVars >>

\* ------------------------------------------------------- pure functions

\* json.loads on the argument payloads of ArgStrings: the decoded value, or
\* the failure.  frame_id is what .get("frame_id") gives on a decoded dict.
Decoded(ok, type, frame_id) == [ok |-> ok, type |-> type, frame_id |-> frame_id]

json_loads(s) ==
    CASE s = "{\"frame_id\": \"X\"}" -> Decoded(TRUE, "dict", "X")
      [] s = "{\"frame_id\": \"Y\"}" -> Decoded(TRUE, "dict", "Y")
      [] s = "{}"                     -> Decoded(TRUE, "dict", None)
      [] s = "{\"frame_id\": \"X\", \"zoom\": 2}" -> Decoded(TRUE, "dict", "X")
      [] s = "[1]"                    -> Decoded(TRUE, "list", Absent)
      [] OTHER                        -> Decoded(FALSE, "JSONDecodeError", Absent)

\* Variant of get_design_context whose mock record ignores its argument.
get_design_context_FixedFrame(frame_id) ==
    [frame_id |-> "X",
     name |-> "Login Screen",
     components |-> << [type |-> "Text", content |-> "Welcome Back"],
                       [type |-> "Input", placeholder |-> "Email"],
                       [type |-> "Input", placeholder |-> "Password"],
                       [type |-> "Button", label |-> "Login"] >>]

\* The mocked design record.
get_design_context(frame_id) ==
    [frame_id |-> frame_id,
     name |-> "Login Screen",
     components |-> << [type |-> "Text", content |-> "Welcome Back"],
                       [type |-> "Input", placeholder |-> "Email"],
                       [type |-> "Input", placeholder |-> "Password"],
                       [type |-> "Button", label |-> "Login"] >>]

\* What a call returns or raises.
Returned(value) == [raised |-> FALSE, error |-> NoError, value |-> value]
Raised(type, text) == [raised |-> TRUE, error |-> Raise(type, text), value |-> None]

\* Variant of execute_tool that checks the required parameter frame_id.
execute_tool_Validating(tool_name, arguments) ==
    IF tool_name = "get_design_context"
    THEN IF arguments.type = "dict"
         THEN IF arguments.frame_id = None
              THEN Raised("ValueError", "Missing required parameter: frame_id")
              ELSE Returned(get_design_context(arguments.frame_id))
         ELSE Raised("AttributeError", "'list' object has no attribute 'get'")
    ELSE Raised("ValueError", "Unknown tool: " \o tool_name)

execute_tool(tool_name, arguments) ==
    IF tool_name = "get_design_context"
    THEN IF arguments.type = "dict"
         THEN Returned(get_design_context(arguments.frame_id))
         ELSE Raised("AttributeError", "'list' object has no attribute 'get'")
    ELSE Raised("ValueError", "Unknown tool: " \o tool_name)

\* json.dumps of a string or None.
DumpStr(v) == IF v = None THEN "null" ELSE "\"" \o v \o "\""

\* json.dumps of the record get_design_context returns.
json_dumps(tool_result) ==
    "{\"frame_id\": " \o DumpStr(tool_result.frame_id)
    \o ", \"name\": " \o DumpStr(tool_result.name)
    \o ", \"components\": [{\"type\": \"Text\", \"content\": \"Welcome Back\"}, "
    \o "{\"type\": \"Input\", \"placeholder\": \"Email\"}, "
    \o "{\"type\": \"Input\", \"placeholder\": \"Password\"}, "
    \o "{\"type\": \"Button\", \"label\": \"Login\"}]}"

\* json.loads on the text of a tool message: the record it denotes, by
\* JSON's reading of the text; JsonInvalid for any other text.
JsonInvalid == [frame_id |-> Absent, name |-> Absent, components |-> <<>>]

json_loads_record(s) ==
    LET rest == ", \"name\": \"Login Screen\", \"components\": [{\"type\": \"Text\", \"content\": \"Welcome Back\"}, {\"type\": \"Input\", \"placeholder\": \"Email\"}, {\"type\": \"Input\", \"placeholder\": \"Password\"}, {\"type\": \"Button\", \"label\": \"Login\"}]}"
        rec(f) == [frame_id |-> f,
                   name |-> "Login Screen",
                   components |-> << [type |-> "Text", content |-> "Welcome Back"],
                                     [type |-> "Input", placeholder |-> "Email"],
                                     [type |-> "Input", placeholder |-> "Password"],
                                     [type |-> "Button", label |-> "Login"] >>]
    IN
    CASE s = "{\"frame_id\": \"X\"" \o rest -> rec("X")
      [] s = "{\"frame_id\": \"Y\"" \o rest -> rec("Y")
      [] s = "{\"frame_id\": null" \o rest  -> rec(None)
      [] OTHER                              -> JsonInvalid

\* e.args of an exception built as Exception(text): the values it carries.
ExceptionArgs(e) == << e.text >>

\* The request body call_openrouter posts.  tools is a sequence; the empty
\* one stands for the default None: both fail the test "if tools:".
Payload(msgs, tools, tool_choice) ==
    [model |-> OPENROUTER_MODEL,
     messages |-> msgs,
     has_tools |-> tools # <<>>,
     tools |-> tools,
     tool_choice |-> IF tools # <<>> THEN tool_choice ELSE Absent]

\* Variant of call_openrouter that raises on server errors (5xx) only.
call_openrouter_ServerErrorsOnly(resp) ==
    IF resp.status_code >= 500
    THEN Raised("Exception", resp.text)
    ELSE Returned(resp.message)

\* call_openrouter after the post: raise on a non-200 status, else the JSON.
call_openrouter(resp) ==
    IF resp.status_code # HTTP_OK
    THEN Raised("Exception", resp.text)
    ELSE Returned(resp.message)

\* Variant of WantsTool that takes a null content for a tool request.
WantsTool_ByContent(m) == m.content = None

\* The test "tool_calls" in message.
WantsTool(m) == m.tc_kind # "absent"

\* Variant of AppendToolResult that correlates every result with the first call.
AppendToolResult_FirstId(msgs, m, tool_call, tool_result) ==
    msgs \o << m, Msg("tool", json_dumps(tool_result), m.tool_calls[1].id, "absent", <<>>) >>

\* Variant of AppendToolResult that rebuilds the conversation from the seed.
AppendToolResult_Rebuild(msgs, m, tool_call, tool_result) ==
    SubSeq(msgs, 1, 2)
    \o << m, Msg("tool", json_dumps(tool_result), tool_call.id, "absent", <<>>) >>

\* Variant of AppendToolResult that appends the result before the request.
AppendToolResult_ResultFirst(msgs, m, tool_call, tool_result) ==
    msgs \o << Msg("tool", json_dumps(tool_result), tool_call.id, "absent", <<>>), m >>

\* Variant of AppendToolResult that appends the assistant message once only.
AppendToolResult_Once(msgs, m, tool_call, tool_result) ==
    (IF \E i \in 1..Len(msgs) : msgs[i] = m THEN msgs ELSE Append(msgs, m))
    \o << Msg("tool", json_dumps(tool_result), tool_call.id, "absent", <<>>) >>

\* The two appends at the end of one loop iteration.
AppendToolResult(msgs, m, tool_call, tool_result) ==
    msgs \o << m, Msg("tool", json_dumps(tool_result), tool_call.id, "absent", <<>>) >>

\* The value of the two return statements.
FirstResult(m) == m.content
FinalResult(m) == m.content

\* ---------------------------------------------------------------- Init

\* The requests served at the same time, and the list objects they may hold.
Procs == {1, 2}

\* The locals of a deep_agent invocation that has not been entered.
IdleRun ==
    [pc |-> "idle", user_prompt |-> None, messages |-> 0, message |-> NoMessage,
     idx |-> 0, result |-> Absent, error |-> NoError, sent |-> <<>>]

\* The other components at rest.
ConcIdle ==
    /\ heap = [r \in Procs |-> <<>>]
    /\ run = [p \in Procs |-> IdleRun]

\* A string is a sequence of atoms; NoneStr stands for None.
NoneStr == << None >>
NotParsed ==
    [file_key |-> NoneStr, node_id |-> NoneStr, component_id |-> NoneStr,
     is_valid |-> FALSE, returned |-> FALSE]

\* What extract_figma_data came to: the pair it returned, or the exception.
Extracted(returned, raised, file_key, node_id) ==
    [returned |-> returned, raised |-> raised, file_key |-> file_key, node_id |-> node_id]
NotExtracted == Extracted(FALSE, FALSE, NoneStr, NoneStr)

UrlIdle ==
    /\ figma_url = <<>>
    /\ parsed = NotParsed
    /\ extracted = NotExtracted

NoCall == [tool_name |-> None]
\* The dictionary call_tool returns: "error" or "result" beside "tool".
ToolReply(tool, has_error, err, has_result, res, returned) ==
    [tool |-> tool, has_error |-> has_error, error |-> err,
     has_result |-> has_result, result |-> res, returned |-> returned]
NoResult == ToolReply(None, FALSE, None, FALSE, None, FALSE)

McpIdle ==
    /\ mcp_call = NoCall
    /\ mcp_result = NoResult

\* The record of a component that has not been fetched.
NoInfo == [has_error |-> FALSE, error |-> None, name |-> None]
NoRequest ==
    [entry |-> None, words |-> <<>>, link |-> NoneStr,
     file_key |-> NoneStr, component_id |-> NoneStr]
\* The locals of a handler: the operation that runs, the link, the ids
\* extracted from it, and the design data fetched.
Frame(at, op, link, file_key, component_id, component_info) ==
    [pc |-> at, op |-> op, link |-> link, file_key |-> file_key,
     component_id |-> component_id, component_info |-> component_info]

ApiIdle ==
    /\ request = NoRequest
    /\ frame = Frame("idle", None, NoneStr, NoneStr, NoneStr, NoInfo)
    /\ effects = <<>>
    /\ returns = <<>>

AgentInit ==
    /\ pc = "start"
    /\ user_prompt \in Prompts
    /\ messages = SeedMessages(user_prompt)
    /\ message = NoMessage
    /\ idx = 0
    /\ result = Absent
    /\ error = NoError
    /\ modelCalls = <<>>
    /\ responses = <<>>
    /\ toolLog = <<>>

\* deep_agent before its first step, for the components that do not run it.
AgentIdle ==
    /\ pc = "start"
    /\ user_prompt = "what is responsive design?"
    /\ messages = SeedMessages(user_prompt)
    /\ message = NoMessage
    /\ idx = 0
    /\ result = Absent
    /\ error = NoError
    /\ modelCalls = <<>>
    /\ responses = <<>>
    /\ toolLog = <<>>

\* request.json of a request to /generate: a JSON object with or without
\* the key "prompt", or a JSON value that is no object.
JsonBody(kind, has_prompt, prompt) ==
    [kind |-> kind, has_prompt |-> has_prompt, prompt |-> prompt]
NoBody == JsonBody(None, FALSE, None)
\* The answer of the route: the status, and the one key of its JSON.
Exchange(at, body, status, key, payload) ==
    [at |-> at, body |-> body, status |-> status, key |-> key, payload |-> payload]
FlaskIdle == exchange = Exchange("idle", NoBody, 0, None, None)

Init == AgentInit /\ ConcIdle /\ UrlIdle /\ McpIdle /\ ApiIdle /\ FlaskIdle

\* -------------------------------------------------------------- actions

\* Step 1: the first model call is posted, with the tool schema.
IssueFirstCall ==
    /\ pc = "start"
    /\ modelCalls' = Append(modelCalls, Payload(messages, TOOLS_SCHEMA, "auto"))
    /\ pc' = "await1"
    /\ UNCHANGED << user_prompt, messages, message, idx, result, error,
                    responses, toolLog >>
    /\ UNCHANGED nonAgentVars

\* The first response arrives; deep_agent raises, returns, or enters the loop.
FirstResponse ==
    /\ pc = "await1"
    /\ \E resp \in Responses(FirstMessages) :
          LET out == call_openrouter(resp) IN
          /\ responses' = Append(responses, resp)
          /\ IF out.raised
             THEN /\ pc' = "raised"
                  /\ error' = out.error
                  /\ UNCHANGED << message, idx, result >>
             ELSE /\ message' = out.value
                  /\ error' = error
                  /\ IF WantsTool(out.value)
                     THEN /\ pc' = "dispatch"
                          /\ idx' = 1
                          /\ result' = result
                     ELSE /\ pc' = "returned"
                          /\ result' = FirstResult(out.value)
                          /\ idx' = idx
    /\ UNCHANGED << user_prompt, messages, modelCalls, toolLog >>
    /\ UNCHANGED nonAgentVars

\* for tool_call in message["tool_calls"] over a value that is no list.
IterateNonList ==
    /\ pc = "dispatch"
    /\ message.tc_kind # "list"
    /\ pc' = "raised"
    /\ error' = IF message.tc_kind = "null"
                THEN Raise("TypeError", "'NoneType' object is not iterable")
                ELSE Raise("KeyError", "'tool_calls'")
    /\ UNCHANGED << user_prompt, messages, message, idx, result,
                    modelCalls, responses, toolLog >>
    /\ UNCHANGED nonAgentVars

\* One iteration of the loop: decode, execute, append.
DispatchTool ==
    /\ pc = "dispatch"
    /\ message.tc_kind = "list"
    /\ idx <= Len(message.tool_calls)
    /\ LET tool_call == message.tool_calls[idx]
           tool_name == tool_call.function.name
           arguments == json_loads(tool_call.function.arguments)
       IN
       IF ~arguments.ok
       THEN /\ pc' = "raised"
            /\ error' = Raise("JSONDecodeError", "Expecting value")
            /\ UNCHANGED << messages, idx, toolLog >>
       ELSE LET out == execute_tool(tool_name, arguments) IN
            /\ toolLog' = Append(toolLog,
                                 [call |-> idx, tool_name |-> tool_name,
                                  arguments |-> arguments, raised |-> out.raised,
                                  model_calls |-> Len(modelCalls),
                                  responses |-> Len(responses),
                                  value |-> out.value])
            /\ IF out.raised
               THEN /\ pc' = "raised"
                    /\ error' = out.error
                    /\ UNCHANGED << messages, idx >>
               ELSE /\ messages' = AppendToolResult(messages, message, tool_call, out.value)
                    /\ idx' = idx + 1
                    /\ UNCHANGED << pc, error >>
    /\ UNCHANGED << user_prompt, message, result, modelCalls, responses >>
    /\ UNCHANGED nonAgentVars

\* Variant of IssueSecondCall that attaches the tool schema again.
IssueSecondCall_WithTools ==
    /\ pc = "dispatch"
    /\ message.tc_kind = "list"
    /\ idx > Len(message.tool_calls)
    /\ modelCalls' = Append(modelCalls, Payload(messages, TOOLS_SCHEMA, "auto"))
    /\ pc' = "await2"
    /\ UNCHANGED << user_prompt, messages, message, idx, result, error,
                    responses, toolLog >>
    /\ UNCHANGED nonAgentVars

\* Variant of IssueSecondCall posted from inside the loop, after one iteration.
IssueSecondCall_InLoop ==
    /\ pc = "dispatch"
    /\ message.tc_kind = "list"
    /\ idx > 1 \/ idx > Len(message.tool_calls)
    /\ modelCalls' = Append(modelCalls, Payload(messages, <<>>, "auto"))
    /\ pc' = "await2"
    /\ UNCHANGED << user_prompt, messages, message, idx, result, error,
                    responses, toolLog >>
    /\ UNCHANGED nonAgentVars

\* Step 3: the loop is over; the second model call is posted, without tools.
IssueSecondCall ==
    /\ pc = "dispatch"
    /\ message.tc_kind = "list"
    /\ idx > Len(message.tool_calls)
    /\ modelCalls' = Append(modelCalls, Payload(messages, <<>>, "auto"))
    /\ pc' = "await2"
    /\ UNCHANGED << user_prompt, messages, message, idx, result, error,
                    responses, toolLog >>
    /\ UNCHANGED nonAgentVars

\* Variant of SecondResponse that returns the content of the first response.
SecondResponse_ReturnsFirst ==
    /\ pc = "await2"
    /\ \E resp \in Responses(FinalMessages) :
          LET out == call_openrouter(resp) IN
          /\ responses' = Append(responses, resp)
          /\ IF out.raised
             THEN /\ pc' = "raised"
                  /\ error' = out.error
                  /\ result' = result
             ELSE /\ pc' = "returned"
                  /\ result' = FinalResult(message)
                  /\ error' = error
    /\ UNCHANGED << user_prompt, messages, message, idx, modelCalls, toolLog >>
    /\ UNCHANGED nonAgentVars

\* Variant of SecondResponse that answers further tool calls with one more
\* model call.
SecondResponse_Loops ==
    /\ pc = "await2"
    /\ \E resp \in Responses(FinalMessages) :
          LET out == call_openrouter(resp) IN
          /\ responses' = Append(responses, resp)
          /\ IF out.raised
             THEN /\ pc' = "raised"
                  /\ error' = out.error
                  /\ UNCHANGED << result, modelCalls >>
             ELSE IF WantsTool(out.value) /\ Len(modelCalls) < 3
                  THEN /\ modelCalls' = Append(modelCalls, Payload(messages, <<>>, "auto"))
                       /\ UNCHANGED << pc, result, error >>
                  ELSE /\ pc' = "returned"
                       /\ result' = FinalResult(out.value)
                       /\ UNCHANGED << error, modelCalls >>
    /\ UNCHANGED << user_prompt, messages, message, idx, toolLog >>
    /\ UNCHANGED nonAgentVars

\* The second response arrives; deep_agent raises or returns its content.
SecondResponse ==
    /\ pc = "await2"
    /\ \E resp \in Responses(FinalMessages) :
          LET out == call_openrouter(resp) IN
          /\ responses' = Append(responses, resp)
          /\ IF out.raised
             THEN /\ pc' = "raised"
                  /\ error' = out.error
                  /\ result' = result
             ELSE /\ pc' = "returned"
                  /\ result' = FinalResult(out.value)
                  /\ error' = error
    /\ UNCHANGED << user_prompt, messages, message, idx, modelCalls, toolLog >>
    /\ UNCHANGED nonAgentVars

Next ==
    \/ IssueFirstCall
    \/ FirstResponse
    \/ IterateNonList
    \/ DispatchTool
    \/ IssueSecondCall
    \/ SecondResponse

Spec == Init /\ [][Next]_vars

\* ================================================== concurrent requests
\*
\* Two requests to /generate served at the same time, each running
\* deep_agent (app.py 165-178, 117-158).  A Python list is an object: a
\* local variable holds a reference into heap.

\* The prompt request p carries, and the id the completion service gives to
\* the tool calls it requests for p.
PromptOf(p) ==
    IF p = 1 THEN "what is responsive design?"
    ELSE "get design data for frame X and summarize it"
IdOf(p) == IF p = 1 THEN "call_a" ELSE "call_b"

ConcToolCalls(p) ==
    { [id |-> IdOf(p), function |-> [name |-> "get_design_context", arguments |-> a]] :
         a \in { "{\"frame_id\": \"X\"}", "{}" } }

ConcFirstMessages(p) ==
    { Msg("assistant", "# Login Screen", Absent, "absent", <<>>) }
    \cup { Msg("assistant", None, Absent, "list", t) :
              t \in SeqsUpTo(ConcToolCalls(p), MaxCalls) }

ConcResponses(msgs) ==
    { Response(HTTP_OK, "ok", m) : m \in msgs }
    \cup { Response(429, "upstream unavailable", NoMessage) }

\* Variant of NewList in which every invocation uses one module-level list.
NewList_Shared(p) == 1

\* The list display messages = [...] creates a list object of its own in
\* each invocation: the reference it evaluates to.
NewList(p) == p

\* generate calls deep_agent(prompt), which builds the seed conversation.
CBuild(p) ==
    /\ run[p].pc = "idle"
    /\ LET ref == NewList(p) IN
       /\ heap' = [heap EXCEPT ![ref] = SeedMessages(PromptOf(p))]
       /\ run' = [run EXCEPT ![p].pc = "start",
                              ![p].user_prompt = PromptOf(p),
                              ![p].messages = ref]
    /\ UNCHANGED << agentVars, urlVars, mcpVars, apiVars, flaskVars >>

CIssueFirstCall(p) ==
    /\ run[p].pc = "start"
    /\ run' = [run EXCEPT ![p].pc = "await1",
                           ![p].sent = Append(@, Payload(heap[run[p].messages],
                                                         TOOLS_SCHEMA, "auto"))]
    /\ UNCHANGED << heap, agentVars, urlVars, mcpVars, apiVars, flaskVars >>

CFirstResponse(p) ==
    /\ run[p].pc = "await1"
    /\ \E resp \in ConcResponses(ConcFirstMessages(p)) :
          LET out == call_openrouter(resp) IN
          IF out.raised
          THEN run' = [run EXCEPT ![p].pc = "raised", ![p].error = out.error]
          ELSE IF WantsTool(out.value)
               THEN run' = [run EXCEPT ![p].pc = "dispatch",
                                       ![p].message = out.value,
                                       ![p].idx = 1]
               ELSE run' = [run EXCEPT ![p].pc = "returned",
                                       ![p].message = out.value,
                                       ![p].result = FirstResult(out.value)]
    /\ UNCHANGED << heap, agentVars, urlVars, mcpVars, apiVars, flaskVars >>

CDispatchTool(p) ==
    /\ run[p].pc = "dispatch"
    /\ run[p].message.tc_kind = "list"
    /\ run[p].idx <= Len(run[p].message.tool_calls)
    /\ LET tool_call == run[p].message.tool_calls[run[p].idx]
           arguments == json_loads(tool_call.function.arguments)
           out == execute_tool(tool_call.function.name, arguments)
       IN
       IF ~arguments.ok
       THEN /\ run' = [run EXCEPT ![p].pc = "raised",
                                  ![p].error = Raise("JSONDecodeError", "Expecting value")]
            /\ heap' = heap
       ELSE IF out.raised
            THEN /\ run' = [run EXCEPT ![p].pc = "raised", ![p].error = out.error]
                 /\ heap' = heap
            ELSE /\ heap' = [heap EXCEPT ![run[p].messages] =
                                AppendToolResult(@, run[p].message, tool_call, out.value)]
                 /\ run' = [run EXCEPT ![p].idx = @ + 1]
    /\ UNCHANGED << agentVars, urlVars, mcpVars, apiVars, flaskVars >>

CIssueSecondCall(p) ==
    /\ run[p].pc = "dispatch"
    /\ run[p].message.tc_kind = "list"
    /\ run[p].idx > Len(run[p].message.tool_calls)
    /\ run' = [run EXCEPT ![p].pc = "await2",
                           ![p].sent = Append(@, Payload(heap[run[p].messages],
                                                         <<>>, "auto"))]
    /\ UNCHANGED << heap, agentVars, urlVars, mcpVars, apiVars, flaskVars >>

CSecondResponse(p) ==
    /\ run[p].pc = "await2"
    /\ \E resp \in ConcResponses({ Msg("assistant", "# Login Screen", Absent, "absent", <<>>) }) :
          LET out == call_openrouter(resp) IN
          IF out.raised
          THEN run' = [run EXCEPT ![p].pc = "raised", ![p].error = out.error]
          ELSE run' = [run EXCEPT ![p].pc = "returned",
                                  ![p].result = FinalResult(out.value)]
    /\ UNCHANGED << heap, agentVars, urlVars, mcpVars, apiVars, flaskVars >>

ConcInit == AgentIdle /\ ConcIdle /\ UrlIdle /\ McpIdle /\ ApiIdle /\ FlaskIdle

ConcNext ==
    \E p \in Procs :
        \/ CBuild(p)
        \/ CIssueFirstCall(p)
        \/ CFirstResponse(p)
        \/ CDispatchTool(p)
        \/ CIssueSecondCall(p)
        \/ CSecondResponse(p)

ConcSpec == ConcInit /\ [][ConcNext]_vars

\* ============================================================== strings
\*
\* A string is the sequence of its pieces ("atoms"): each delimiter character
\* is an atom of its own, and a run of other characters is cut into one or
\* more atoms.  The code below only ever cuts, searches and replaces at
\* delimiters and at the escape %3A, so the pieces behave as the characters do.

Delims == { "/", "?", "#", "&", "=", "-", ":", "%" }

Min(S) == CHOOSE x \in S : \A y \in S : x <= y

\* s[i:] and s[:i] of Python, with 1-based positions: from i on, before i.
From(s, i) == SubSeq(s, i, Len(s))
Before(s, i) == SubSeq(s, 1, i - 1)

\* Whether pat stands in s at position i.
MatchAt(s, pat, i) ==
    /\ i >= 1
    /\ i + Len(pat) - 1 <= Len(s)
    /\ SubSeq(s, i, i + Len(pat) - 1) = pat

\* str.find: the first position of pat in s, 0 when there is none.
Find(s, pat) ==
    LET hits == { i \in 1..Len(s) : MatchAt(s, pat, i) } IN
    IF hits = {} THEN 0 ELSE Min(hits)

\* pat in s.
Contains(s, pat) == Find(s, pat) # 0

\* str.replace(old, new), old non-empty: every occurrence, left to right.
RECURSIVE StrReplace(_, _, _)
StrReplace(s, old, new) ==
    IF s = <<>> THEN <<>>
    ELSE IF MatchAt(s, old, 1)
         THEN new \o StrReplace(From(s, Len(old) + 1), old, new)
         ELSE << Head(s) >> \o StrReplace(Tail(s), old, new)

\* str.split(sep) for a one-character separator: the list of parts.
RECURSIVE StrSplit(_, _)
StrSplit(s, sep) ==
    LET i == Find(s, << sep >>) IN
    IF i = 0 THEN << s >>
    ELSE << Before(s, i) >> \o StrSplit(From(s, i + 1), sep)

\* The longest prefix of s without an atom of stop.
RECURSIVE TakeUntil(_, _)
TakeUntil(s, stop) ==
    IF s = <<>> \/ Head(s) \in stop THEN <<>>
    ELSE << Head(s) >> \o TakeUntil(Tail(s), stop)

\* urllib.parse.unquote on the escapes of the alphabet: %3A and %3a are ":".
RECURSIVE unquote(_)
unquote(s) ==
    IF s = <<>> THEN <<>>
    ELSE IF Len(s) >= 2 /\ s[1] = "%" /\ s[2] \in {"3A", "3a"}
         THEN << ":" >> \o unquote(From(s, 3))
         ELSE << Head(s) >> \o unquote(Tail(s))

\* urllib.parse.urlparse: scheme, netloc, path, query, fragment.
urlparse(url) ==
    LET colon == Find(url, << ":" >>)
        hasScheme == /\ colon > 1
                     /\ \A j \in 1..(colon - 1) : url[j] \notin (Delims \ {"-"})
        scheme == IF hasScheme THEN Before(url, colon) ELSE <<>>
        rest1 == IF hasScheme THEN From(url, colon + 1) ELSE url
        hasNetloc == MatchAt(rest1, << "/", "/" >>, 1)
        netloc == IF hasNetloc THEN TakeUntil(From(rest1, 3), {"/", "?", "#"}) ELSE <<>>
        rest2 == IF hasNetloc THEN From(rest1, 3 + Len(netloc)) ELSE rest1
        hash == Find(rest2, << "#" >>)
        fragment == IF hash # 0 THEN From(rest2, hash + 1) ELSE <<>>
        rest3 == IF hash # 0 THEN Before(rest2, hash) ELSE rest2
        qm == Find(rest3, << "?" >>)
        query == IF qm # 0 THEN From(rest3, qm + 1) ELSE <<>>
        path == IF qm # 0 THEN Before(rest3, qm) ELSE rest3
    IN [scheme |-> scheme, netloc |-> netloc, path |-> path,
        query |-> query, fragment |-> fragment]

\* urllib.parse.parse_qs(query)[name][0]: the first non-blank value of the
\* field name, unquoted; NoneStr when name is not a key of the result.
RECURSIVE FirstValue(_, _)
FirstValue(pairs, name) ==
    IF pairs = <<>> THEN NoneStr
    ELSE LET pair == Head(pairs)
             eq == Find(pair, << "=" >>)
         IN IF /\ eq # 0
               /\ From(pair, eq + 1) # <<>>
               /\ unquote(Before(pair, eq)) = name
            THEN unquote(From(pair, eq + 1))
            ELSE FirstValue(Tail(pairs), name)

parse_qs_first(query, name) == FirstValue(StrSplit(query, "&"), name)

\* ====================================================== FigmaUrlParser

FILE == << "file" >>
DESIGN == << "design" >>
NODE_ID == << "node", "-", "id" >>

\* not x, for a string or None.
Falsy(x) == x = NoneStr \/ x = <<>>

\* The for loop over path_parts: the part after the first "file" or
\* "design" part that has a part after it, cut at "?"; NoneStr if none.
FileKeyFromPath(path_parts) ==
    LET hits == { i \in 1..Len(path_parts) :
                     path_parts[i] \in {FILE, DESIGN} /\ i + 1 <= Len(path_parts) }
    IN IF hits = {} THEN NoneStr
       ELSE StrSplit(path_parts[Min(hits) + 1], "?")[1]

\* re.search(r'/(?:file|design)/([a-zA-Z0-9]+)', url): group 1, or NoneStr.
FileKeyRegex(url) ==
    LET hits == { i \in 1..Len(url) :
                     /\ \/ MatchAt(url, << "/" >> \o FILE \o << "/" >>, i)
                        \/ MatchAt(url, << "/" >> \o DESIGN \o << "/" >>, i)
                     /\ TakeUntil(From(url, i + 3), Delims) # <<>> }
    IN IF hits = {} THEN NoneStr
       ELSE TakeUntil(From(url, Min(hits) + 3), Delims)

\* re.search(r'node-id=([^&]+)', url): group 1, or NoneStr.
NodeIdRegex(url) ==
    LET pat == NODE_ID \o << "=" >>
        hits == { i \in 1..Len(url) :
                     /\ MatchAt(url, pat, i)
                     /\ TakeUntil(From(url, i + Len(pat)), {"&"}) # <<>> }
    IN IF hits = {} THEN NoneStr
       ELSE TakeUntil(From(url, Min(hits) + Len(pat)), {"&"})

\* Variant of normalize_node_id that leaves hyphens as they are.
normalize_node_id_NoHyphen(node_id_raw) ==
    StrReplace(node_id_raw, << "%", "3A" >>, << ":" >>)

\* %3A becomes ":", and "-" becomes ":" when there is no ":".
normalize_node_id(node_id_raw) ==
    LET r == StrReplace(node_id_raw, << "%", "3A" >>, << ":" >>) IN
    IF Contains(r, << "-" >>) /\ ~Contains(r, << ":" >>)
    THEN StrReplace(r, << "-" >>, << ":" >>)
    ELSE r

\* The file key after the regex fallback: key1 is what the loop over the
\* path parts found.
FileKeyOrRegex(url, key1) ==
    IF Falsy(key1)
    THEN (IF FileKeyRegex(url) # NoneStr THEN FileKeyRegex(url) ELSE key1)
    ELSE key1

\* The node id of the query field: raw is query_params['node-id'][0], or
\* NoneStr when the field is not there.
NodeIdFromQuery(raw) == IF raw # NoneStr THEN normalize_node_id(raw) ELSE NoneStr

\* The node id after the look into the fragment.
NodeIdOrFragment(url, node1) ==
    IF Falsy(node1) /\ Contains(url, << "#" >>) /\ NodeIdRegex(url) # NoneStr
    THEN normalize_node_id(NodeIdRegex(url))
    ELSE node1

\* The dictionary parse_url returns.
ParsedLink(file_key, node_id) ==
    [file_key |-> file_key, node_id |-> node_id, component_id |-> node_id,
     is_valid |-> file_key # NoneStr, returned |-> TRUE]

parse_url(url) ==
    ParsedLink(
        FileKeyOrRegex(url, FileKeyFromPath(StrSplit(urlparse(url).path, "/"))),
        NodeIdOrFragment(url, NodeIdFromQuery(parse_qs_first(urlparse(url).query, NODE_ID))))

\* parsed.get("file_key"), parsed.get("component_id").
KeyAndId(d) == << d.file_key, d.component_id >>

extract_from_share_link(share_link) == KeyAndId(parse_url(share_link))

\* Variant of format_for_api that writes the colon of the id as "_".
format_for_api_Underscore(file_key, component_id) ==
    LET base == << "https", ":", "/", "/", "www.figma.com", "/", "design", "/" >>
                \o file_key \o << "/" >>
    IN IF Falsy(component_id) THEN base
       ELSE base \o << "?", "node", "-", "id", "=" >>
                 \o StrReplace(component_id, << ":" >>, << "_" >>)

\* The share link of a file key and a component id (None: no id).
format_for_api(file_key, component_id) ==
    LET base == << "https", ":", "/", "/", "www.figma.com", "/", "design", "/" >>
                \o file_key \o << "/" >>
    IN IF Falsy(component_id) THEN base
       ELSE base \o << "?", "node", "-", "id", "=" >>
                 \o StrReplace(component_id, << ":" >>, << "-" >>)

\* ------------------------------------------------------------- the links

HOST == << "https", ":", "/", "/", "www.figma.com" >>

Keys == { << "hFG2EALMP9Rgrn7CVMWvXf" >>, << "abc123" >>, DESIGN }
Names == { << "name" >>, << "MCP", "-", "Test" >> }
Kinds == { FILE, DESIGN }
\* The two halves of a node id such as 123-456.
NodeParts == { << "123", "456" >>, << "38", "2" >> }

\* The query of a documented link: none, node-id=a-b, or node-id=a%3Ab.
Hyphenated(n) == << "?" >> \o NODE_ID \o << "=", n[1], "-", n[2] >>
Encoded(n) == << "?" >> \o NODE_ID \o << "=", n[1], "%", "3A", n[2] >>
\* What follows a node id in links copied from the Figma application.
Trailers == { <<>>, << "&", "t", "=", "xyz" >> }

DocLink(kind, key, name, query) ==
    HOST \o << "/" >> \o kind \o << "/" >> \o key \o << "/" >> \o name \o query

DocQueries ==
    { <<>> }
    \cup { Hyphenated(n) \o t : n \in NodeParts, t \in Trailers }
    \cup { Encoded(n) \o t : n \in NodeParts, t \in Trailers }

DocLinks ==
    { DocLink(kind, key, name, q) :
         kind \in Kinds, key \in Keys, name \in Names, q \in DocQueries }

\* Links outside the documented formats.
OtherLinks ==
    { HOST \o << "/", "design", "/" >>,
      HOST \o << "/", "design", "/", "/", "name" >> \o Hyphenated(<< "38", "2" >>),
      HOST \o << "/", "design", "/", "abc123", "?" >> \o NODE_ID \o << "=", "38", "-", "2" >>,
      HOST \o << "/", "proto", "/", "abc123", "/", "name" >>,
      HOST \o << "/", "design", "/", "abc123", "/", "name", "#" >> \o NODE_ID \o << "=", "38", "-", "2" >>,
      HOST \o << "/", "proto", "/", "x", "#", "/", "file", "/", "abc123" >>,
      << "not", "-", "a", "-", "link" >>,
      <<>> }

\* The arguments of format_for_api: file keys, and component ids in colon
\* form or None.
FormatKeys == Keys \cup { FILE, << "0Ab9" >>, << "KEY" >>, << "x" >> }
FormatIds ==
    { << n[1], ":", n[2] >> : n \in NodeParts }
    \cup { << "0", ":", "1" >>, << "1", ":", "2", ":", "3" >>,
            << "I5", ":", "3", ";", "1", ":", "2" >>, NoneStr }
FormattedLinks == { format_for_api(k, c) : k \in FormatKeys, c \in FormatIds }

Links == DocLinks \cup OtherLinks \cup FormattedLinks

ParseUrl ==
    /\ ~parsed.returned
    /\ parsed' = parse_url(figma_url)
    /\ UNCHANGED << figma_url, extracted, agentVars, concVars, mcpVars, apiVars, flaskVars >>

\* re.search(r'figma.com/design/([^/]+)', figma_link): group 1, or NoneStr.
\* The host is one atom; the group runs to the next "/" or to the end.
DesignKeyRegex(figma_link) ==
    LET hits == { i \in 1..Len(figma_link) :
                     /\ figma_link[i] \in { "www.figma.com", "figma.com" }
                     /\ MatchAt(figma_link, << "/" >> \o DESIGN \o << "/" >>, i + 1)
                     /\ TakeUntil(From(figma_link, i + 4), { "/" }) # <<>> }
    IN IF hits = {} THEN NoneStr
       ELSE TakeUntil(From(figma_link, Min(hits) + 4), { "/" })

\* extract_figma_data of vision.py and Testing/wirefy_agent.py.
extract_figma_data(figma_link) ==
    IF DesignKeyRegex(figma_link) = NoneStr \/ NodeIdRegex(figma_link) = NoneStr
    THEN Extracted(TRUE, TRUE, NoneStr, NoneStr)
    ELSE Extracted(TRUE, FALSE, DesignKeyRegex(figma_link),
                   StrReplace(NodeIdRegex(figma_link), << "-" >>, << ":" >>))

\* The same link is given to extract_figma_data.
ExtractFigmaData ==
    /\ ~extracted.returned
    /\ extracted' = extract_figma_data(figma_url)
    /\ UNCHANGED << figma_url, parsed, agentVars, concVars, mcpVars, apiVars, flaskVars >>

UrlInit ==
    /\ figma_url \in Links
    /\ parsed = NotParsed
    /\ extracted = NotExtracted
    /\ AgentIdle /\ ConcIdle /\ McpIdle /\ ApiIdle /\ FlaskIdle

UrlNext ==
    \/ ParseUrl
    \/ ExtractFigmaData

UrlSpec == UrlInit /\ [][UrlNext]_vars

\* ======================================================= FigmaMCPClient

\* The names list_tools advertises, in its order.
list_tools ==
    << "figma_get_file", "figma_get_component", "figma_get_image",
       "figma_extract_component_info" >>

\* os.getenv("FIGMA_ACCESS_TOKEN"): unset, empty, or a token.
FigmaTokens == { None, "", "figd_token" }
McpToolNames == { list_tools[i] : i \in 1..Len(list_tools) } \cup { "frobnicate" }
\* arguments.get("component_id") and arguments.get("node_id"): an id with a
\* hyphen, one with a colon, or None for a missing key.
McpIds == { << "38", "-", "2" >>, << "38", ":", "2" >>, NoneStr }
\* What a GET on the Figma API comes to: the requested id is in the JSON, the
\* JSON lacks it, the status is an error, or the connection fails.
HttpOutcomes == { "ok_found", "ok_missing", "status_error", "connect_error" }

McpCalls ==
    [figma_token : FigmaTokens,
     tool_name : McpToolNames,
     arguments : [file_key : { << "abc123" >> }, component_id : McpIds, node_id : McpIds],
     nodes_response : HttpOutcomes,
     images_response : HttpOutcomes]

\* Variant of error_reply in which the exception leaves call_tool: nothing
\* is returned.
error_reply_Uncaught(tool_name, text) == ToolReply(tool_name, FALSE, None, FALSE, None, FALSE)

error_reply(tool_name, text) == ToolReply(tool_name, TRUE, text, FALSE, None, TRUE)
result_reply(tool_name, res) == ToolReply(tool_name, FALSE, None, TRUE, res, TRUE)

\* str(e) of what client.get or raise_for_status raises on an outcome.
HttpErrorText(outcome) ==
    IF outcome = "connect_error" THEN "All connection attempts failed"
    ELSE "Client error '404 Not Found'"
HttpOk(outcome) == outcome \in { "ok_found", "ok_missing" }

\* node_data.get("document", {}) of the nodes JSON.
Document(outcome) ==
    IF outcome = "ok_found"
    THEN [name |-> "Login Button", type |-> "COMPONENT", description |-> "",
          children |-> << [id |-> "38:3", name |-> "Label", type |-> "TEXT"] >>]
    ELSE [name |-> "Unknown", type |-> "Unknown", description |-> "", children |-> <<>>]
\* image_data.get("images", {}).get(id, "").
ImageUrl(outcome) == IF outcome = "ok_found" THEN "https://figma-img/38-2.png" ELSE ""

NoneTypeReplace == "'NoneType' object has no attribute 'replace'"

call_tool(c) ==
    LET tool_name == c.tool_name
        arguments == c.arguments
    IN
    IF c.figma_token \in { None, "" }
    THEN error_reply(tool_name, "FIGMA_ACCESS_TOKEN not set in .env file")
    ELSE IF tool_name = "figma_extract_component_info"
    THEN IF arguments.component_id = NoneStr
         THEN error_reply(tool_name, NoneTypeReplace)
         ELSE IF ~HttpOk(c.nodes_response)
         THEN error_reply(tool_name, HttpErrorText(c.nodes_response))
         ELSE IF ~HttpOk(c.images_response)
         THEN error_reply(tool_name, HttpErrorText(c.images_response))
         ELSE result_reply(tool_name,
                  [id |-> arguments.component_id,
                   api_id |-> StrReplace(arguments.component_id, << "-" >>, << ":" >>),
                   name |-> Document(c.nodes_response).name,
                   type |-> Document(c.nodes_response).type,
                   description |-> Document(c.nodes_response).description,
                   image_url |-> ImageUrl(c.images_response),
                   children |-> Document(c.nodes_response).children])
    ELSE IF tool_name = "figma_get_component"
    THEN IF arguments.component_id = NoneStr
         THEN error_reply(tool_name, NoneTypeReplace)
         ELSE IF ~HttpOk(c.nodes_response)
         THEN error_reply(tool_name, HttpErrorText(c.nodes_response))
         ELSE result_reply(tool_name,
                  [api_id |-> StrReplace(arguments.component_id, << "-" >>, << ":" >>),
                   document |-> Document(c.nodes_response)])
    ELSE IF tool_name = "figma_get_image"
    THEN IF arguments.node_id = NoneStr
         THEN error_reply(tool_name, NoneTypeReplace)
         ELSE IF ~HttpOk(c.images_response)
         THEN error_reply(tool_name, HttpErrorText(c.images_response))
         ELSE result_reply(tool_name,
                  [node_id |-> arguments.node_id,
                   image_url |-> ImageUrl(c.images_response)])
    ELSE error_reply(tool_name, "Unknown tool: " \o tool_name)

CallTool ==
    /\ ~mcp_result.returned
    /\ mcp_result' = call_tool(mcp_call)
    /\ UNCHANGED << mcp_call, agentVars, concVars, urlVars, apiVars, flaskVars >>

McpInit ==
    /\ mcp_call \in McpCalls
    /\ mcp_result = NoResult
    /\ AgentIdle /\ ConcIdle /\ UrlIdle /\ ApiIdle /\ FlaskIdle

McpNext == CallTool

McpSpec == McpInit /\ [][McpNext]_vars

\* ======================================================= the link pipeline
\*
\* The FastAPI handlers of main.py, the operations of LangChainDeepAgent
\* (langchain_agent.py), and the two clients of /generate-plan-from-link
\* (figma_bridge.py, figma_mcp_tool.py).  One behaviour is one request to one
\* entry point.  Figma, the model and the file system are the environment.

\* The text of a query: words are atoms of their own, as are the blank and
\* the pieces of a link.  str.lower on the atoms that occur.
lower(text) ==
    [i \in 1..Len(text) |->
        CASE text[i] = "Parse"    -> "parse"
          [] text[i] = "Analyze"  -> "analyze"
          [] text[i] = "Generate" -> "generate"
          [] text[i] = "Show"     -> "show"
          [] text[i] = "What"     -> "what"
          [] text[i] = "MCP"      -> "mcp"
          [] text[i] = "Test"     -> "test"
          [] OTHER                -> text[i]]

\* re.search of https?://[^\s]*(figma\.com)[^\s]* and, failing that, of
\* https?://[^\s]+ : the matched text, NoneStr when there is no match.
extract_link_from_text(text) ==
    LET Run(i) == TakeUntil(From(text, i + 4), {" "})
        Starts == { i \in 1..Len(text) :
                       /\ text[i] \in {"http", "https"}
                       /\ MatchAt(text, << ":", "/", "/" >>, i + 1) }
        figma == { i \in Starts : \E j \in 1..Len(Run(i)) :
                                     Run(i)[j] \in {"www.figma.com", "figma.com"} }
        url == { i \in Starts : Run(i) # <<>> }
        Matched(i) == SubSeq(text, i, i + 3 + Len(Run(i)))
    IN IF figma # {} THEN Matched(Min(figma))
       ELSE IF url # {} THEN Matched(Min(url))
       ELSE NoneStr

\* Variant of run_route that looks for "analyze" before "parse".
run_route_AnalyzeFirst(input_text) ==
    LET text_lower == lower(input_text) IN
    IF ~Falsy(extract_link_from_text(input_text))
    THEN IF Contains(text_lower, << "analyze" >>) THEN "agent.analyze_component"
         ELSE IF Contains(text_lower, << "parse" >>) THEN "agent.parse_link"
         ELSE IF \/ Contains(text_lower, << "plan" >>)
                 \/ Contains(text_lower, << "implement" >>)
                 \/ Contains(text_lower, << "generate" >>)
              THEN "agent.generate_plan"
              ELSE "agent.analyze_component"
    ELSE "agent.process_general_query"

\* The operation LangChainDeepAgent.run hands the request to.
run_route(input_text) ==
    LET text_lower == lower(input_text) IN
    IF ~Falsy(extract_link_from_text(input_text))
    THEN IF Contains(text_lower, << "parse" >>) THEN "agent.parse_link"
         ELSE IF Contains(text_lower, << "analyze" >>) THEN "agent.analyze_component"
         ELSE IF \/ Contains(text_lower, << "plan" >>)
                 \/ Contains(text_lower, << "implement" >>)
                 \/ Contains(text_lower, << "generate" >>)
              THEN "agent.generate_plan"
              ELSE "agent.analyze_component"
    ELSE "agent.process_general_query"

\* What FigmaMCPBackend.get_component_info returns for the call c of
\* figma_extract_component_info: the error, or the component record.
get_component_info(c) ==
    LET reply == call_tool(c) IN
    IF reply.has_error
    THEN [has_error |-> TRUE, error |-> reply.error, name |-> None]
    ELSE [has_error |-> FALSE, error |-> None, name |-> reply.result.name]

\* Variant of FetchFailed that takes every fetch for a success.
FetchFailed_Never(component_info) == FALSE

\* "error" in component_info.
FetchFailed(component_info) == component_info.has_error

\* Variant of LinkRejected that asks for the file key only.
LinkRejected_KeyOnly(file_key, component_id) == Falsy(file_key)

\* not file_key, or not component_id.
LinkRejected(file_key, component_id) == Falsy(file_key) \/ Falsy(component_id)

\* A returned value: a dictionary, an AnalyzeResponse, an AgentResponse or a
\* string.  has_success and has_error say whether the keys are there.
Reply(kind, has_success, success, has_error, err, text, plan, files) ==
    [kind |-> kind, has_success |-> has_success, success |-> success,
     has_error |-> has_error, error |-> err, text |-> text,
     plan |-> plan, files |-> files]

\* The mark the agent's operations put at the head of an error text.
ERR == "(x) Error"

\* What an operation returns when it gives up at a stage: "link" (no key
\* or no id in the link), "fetch" (the error record), "except" (the handler
\* of an exception).
ErrorReply(op, stage, e) ==
    CASE op = "agent.analyze_component" ->
            Reply("str", FALSE, FALSE, FALSE, None,
                  CASE stage = "link"  -> << ERR, ": Could not parse Figma link." >>
                    [] stage = "fetch" -> << ERR, ": ", e >>
                    [] OTHER           -> << ERR, " analyzing Figma component: ", e >>,
                  NoneStr, <<>>)
      [] op = "agent.generate_plan" ->
            Reply("str", FALSE, FALSE, FALSE, None,
                  CASE stage = "link"  -> << ERR, ": Could not parse Figma link." >>
                    [] stage = "fetch" -> << ERR, ": ", e >>
                    [] OTHER           -> << ERR, " generating plan: ", e >>,
                  NoneStr, <<>>)
      [] op = "main.analyze_component" /\ stage = "fetch" ->
            Reply("AnalyzeResponse", TRUE, FALSE, TRUE, e,
                  << "Failed to fetch component" >>, NoneStr, <<>>)
      [] op = "main.analyze_component" /\ stage = "except" ->
            Reply("AnalyzeResponse", TRUE, FALSE, TRUE, e,
                  << "Analysis failed" >>, NoneStr, <<>>)
      [] OTHER ->
            Reply("dict", FALSE, FALSE, TRUE, e, <<>>, NoneStr, <<>>)

\* ------------------------------------------------------------ the inputs

EntryPoints ==
    { "/generate-plan", "/analyze", "/analyze-from-link", "/generate-plan-from-link",
      "/agent", "agent.run", "agent.analyze_component", "agent.generate_plan",
      "bridge.analyze_figma_link", "tool.analyze_figma_component" }
RunEntries == { "/agent", "agent.run" }
DirectEntries == { "/generate-plan", "/analyze" }
HttpClients == { "bridge.analyze_figma_link", "tool.analyze_figma_component" }

\* The links of a query or a request body.
SampleLink(name) == DocLink(DESIGN, << "abc123" >>, name, Hyphenated(<< "38", "2" >>))
QueryLinks ==
    { SampleLink(<< "MCP", "-", "Test" >>),
      SampleLink(<< "parse", "r" >>),
      SampleLink(<< "plan", "ner" >>),
      << "https", ":", "/", "/", "example.com", "/", "x" >>,
      <<>> }
ApiLinks ==
    { SampleLink(<< "MCP", "-", "Test" >>),
      format_for_api(<< "abc123" >>, << "38", ":", "2" >>),
      DocLink(FILE, << "abc123" >>, << "name" >>, <<>>),
      HOST \o << "/", "design", "/" >>,
      HOST \o << "/", "proto", "/", "abc123", "/", "name" >> \o Hyphenated(<< "38", "2" >>),
      << "not", "-", "a", "-", "link" >> }
\* What the request says beside the link.
Phrases ==
    { << "Parse" >>, << "Analyze" >>, << "Generate" >>, << "implement" >>,
      << "plan" >>, << "Show" >>, << "Parse", " ", "and", " ", "Analyze" >>,
      << "What", " ", "are", " ", "best", " ", "practices" >> }

\* The query: the words, a blank and the link, or the words alone.
Query(words, link) == IF link = <<>> THEN words ELSE words \o << " " >> \o link

Requests ==
    { [entry |-> e, words |-> w, link |-> l, file_key |-> NoneStr, component_id |-> NoneStr] :
         e \in RunEntries, w \in Phrases, l \in QueryLinks }
    \cup { [entry |-> e, words |-> <<>>, link |-> l, file_key |-> NoneStr,
            component_id |-> NoneStr] :
              e \in EntryPoints \ (RunEntries \cup DirectEntries), l \in ApiLinks }
    \cup { [entry |-> e, words |-> <<>>, link |-> NoneStr, file_key |-> << "abc123" >>,
            component_id |-> c] :
              e \in DirectEntries, c \in McpIds \ { NoneStr } }

\* The handler a request starts in, and the operation it is bound for.
StartFrame(r) ==
    Frame(CASE r.entry \in RunEntries    -> "route"
            [] r.entry \in HttpClients   -> "post"
            [] r.entry \in DirectEntries -> "fetch"
            [] OTHER                     -> "parse",
          CASE r.entry \in RunEntries -> None
            [] r.entry \in { "/analyze", "/analyze-from-link" } -> "main.analyze_component"
            [] r.entry \in { "agent.analyze_component", "agent.generate_plan" } -> r.entry
            [] OTHER -> "main.generate_implementation_plan",
          r.link, r.file_key, r.component_id, NoInfo)

\* Where the value of the operation goes: to the caller that wraps it
\* ("respond"), or out.
AfterReturn == IF request.entry \in HttpClients \cup { "/agent" } THEN "respond" ELSE "done"

\* What Figma and the environment come to for one fetch.
FetchEnvs ==
    [figma_token : FigmaTokens, nodes_response : HttpOutcomes, images_response : HttpOutcomes]

\* The text a model call returns.
Plans ==
    { << "### Implementation Plan", "steps", "### Task", "build it" >>,
      << "### Task", "t1", "### Implementation Plan", "steps", "### Task", "t2" >>,
      << "Use a flex row." >> }
\* A model call returns a text or raises.
ModelOutcomes ==
    { [raised |-> FALSE, text |-> p] : p \in Plans }
    \cup { [raised |-> TRUE, text |-> << "429 Too Many Requests" >>] }

\* What the handler did to the outside: a call, or a write of text to a file.
Effect(kind, name, ok) == [kind |-> kind, name |-> name, ok |-> ok, text |-> <<>>]
Written(name, text, ok) == [kind |-> "write", name |-> name, ok |-> ok, text |-> text]

\* ----------------------------------------------------------- the actions

\* LangChainDeepAgent.run: find the link, choose the operation.
Route ==
    /\ frame.pc = "route"
    /\ \E input_text \in { Query(request.words, request.link) } :
       \E op \in { run_route(input_text) } :
          /\ frame' = [frame EXCEPT
                          !.pc = CASE op = "agent.parse_link" -> "parse_link"
                                   [] op = "agent.process_general_query" -> "llm"
                                   [] OTHER -> "parse",
                          !.op = op,
                          !.link = extract_link_from_text(input_text)]
          /\ effects' = Append(effects, Effect("op", op, TRUE))
    /\ UNCHANGED << request, returns >>
    /\ UNCHANGED << agentVars, concVars, urlVars, mcpVars, flaskVars >>

\* LangChainDeepAgent.parse_link.
ParseLink ==
    /\ frame.pc = "parse_link"
    /\ \E p \in { parse_url(frame.link) } :
       returns' = Append(returns,
           IF p.is_valid
           THEN Reply("str", FALSE, FALSE, FALSE, None,
                      << "Figma Link Parsed Successfully" >> \o p.file_key \o p.component_id,
                      NoneStr, <<>>)
           ELSE Reply("str", FALSE, FALSE, FALSE, None,
                      << ERR, ": Invalid Figma link." >>, NoneStr, <<>>))
    /\ frame' = [frame EXCEPT !.pc = AfterReturn]
    /\ UNCHANGED << request, effects >>
    /\ UNCHANGED << agentVars, concVars, urlVars, mcpVars, flaskVars >>

\* LangChainDeepAgent.process_general_query.
GeneralQuery ==
    /\ frame.pc = "llm"
    /\ \E o \in ModelOutcomes :
          /\ effects' = Append(effects, Effect("model", "llm.ainvoke", ~o.raised))
          /\ returns' = Append(returns,
                Reply("str", FALSE, FALSE, FALSE, None,
                      IF o.raised THEN << ERR, " processing query: " >> \o o.text ELSE o.text,
                      NoneStr, <<>>))
    /\ frame' = [frame EXCEPT !.pc = AfterReturn]
    /\ UNCHANGED request
    /\ UNCHANGED << agentVars, concVars, urlVars, mcpVars, flaskVars >>

\* The HTTP client posts the link to /generate-plan-from-link: the request
\* reaches the backend, or the connection fails.
Post ==
    /\ frame.pc = "post"
    /\ \/ /\ frame' = [frame EXCEPT !.pc = "parse"]
          /\ returns' = returns
       \/ /\ frame' = [frame EXCEPT !.pc = "done"]
          /\ returns' = Append(returns,
                Reply("dict", TRUE, FALSE, TRUE, "All connection attempts failed",
                      <<>>, NoneStr, <<>>))
    /\ UNCHANGED << request, effects >>
    /\ UNCHANGED << agentVars, concVars, urlVars, mcpVars, flaskVars >>

\* extract_from_share_link and the tests on what it returned.
ExtractLink ==
    /\ frame.pc = "parse"
    /\ \E ids \in { extract_from_share_link(frame.link) } :
       IF LinkRejected(ids[1], ids[2])
       THEN /\ returns' = Append(returns,
                   ErrorReply(frame.op, "link",
                              IF Falsy(ids[1])
                              THEN "Could not extract file key from link"
                              ELSE "Could not extract component ID from link."))
            /\ frame' = [frame EXCEPT !.pc = AfterReturn]
       ELSE /\ returns' = returns
            /\ frame' = [frame EXCEPT !.pc = "fetch", !.file_key = ids[1],
                                      !.component_id = ids[2]]
    /\ UNCHANGED << request, effects >>
    /\ UNCHANGED << agentVars, concVars, urlVars, mcpVars, flaskVars >>

\* get_component_info and the test on what it returned.
Fetch ==
    /\ frame.pc = "fetch"
    /\ \E env \in FetchEnvs :
          \E component_info \in
                { get_component_info(
                      [figma_token |-> env.figma_token,
                       tool_name |-> "figma_extract_component_info",
                       arguments |-> [file_key |-> frame.file_key,
                                      component_id |-> frame.component_id,
                                      node_id |-> NoneStr],
                       nodes_response |-> env.nodes_response,
                       images_response |-> env.images_response]) } :
             /\ effects' = Append(effects, Effect("fetch", "get_component_info",
                                                  ~component_info.has_error))
             /\ IF FetchFailed(component_info)
                THEN /\ returns' = Append(returns,
                            ErrorReply(frame.op, "fetch", component_info.error))
                     /\ frame' = [frame EXCEPT !.pc = AfterReturn,
                                               !.component_info = component_info]
                ELSE /\ returns' = returns
                     /\ frame' = [frame EXCEPT !.pc = "model",
                                               !.component_info = component_info]
    /\ UNCHANGED request
    /\ UNCHANGED << agentVars, concVars, urlVars, mcpVars, flaskVars >>

\* parts = plan_analysis.split("### Task"): parts[0], and "### Task" + parts[1].
implementation_part(plan_analysis) == StrSplit(plan_analysis, "### Task")[1]
task_part(plan_analysis) == << "### Task" >> \o StrSplit(plan_analysis, "### Task")[2]

\* The part of the model's text that is written to a file, after the
\* heading of the file.
FileText(name, plan_analysis) ==
    CASE name = "implementation_plan" -> implementation_part(plan_analysis)
      [] name = "task"                -> task_part(plan_analysis)
      [] OTHER                        -> plan_analysis

\* The files a handler writes for the text the model returned, in order.
FilesOf(op, plan_analysis) ==
    IF op = "main.analyze_component" THEN << "analysis" >>
    ELSE IF /\ Contains(plan_analysis, << "### Implementation Plan" >>)
            /\ Contains(plan_analysis, << "### Task" >>)
         THEN << "complete", "implementation_plan", "task" >>
         ELSE << "complete" >>

\* The model call, and for the handlers of main.py the files written after
\* it: n of them are written before the file system fails, or all.
ModelAndPersist ==
    /\ frame.pc = "model"
    /\ \E o \in ModelOutcomes :
          LET called == Append(effects, Effect("model", "openrouter", ~o.raised)) IN
          IF o.raised
          THEN /\ effects' = called
               /\ returns' = Append(returns, ErrorReply(frame.op, "except", o.text[1]))
          ELSE IF frame.op \in { "agent.analyze_component", "agent.generate_plan" }
          THEN /\ effects' = called
               /\ returns' = Append(returns,
                     Reply("str", FALSE, FALSE, FALSE, None,
                           << frame.op, frame.component_info.name >> \o o.text, o.text, <<>>))
          ELSE LET files == FilesOf(frame.op, o.text) IN
               \E n \in 0..Len(files) :
                  /\ effects' = called
                        \o [i \in 1..n |->
                               Written(files[i], FileText(files[i], o.text), TRUE)]
                        \o (IF n < Len(files)
                            THEN << Written(files[n + 1], <<>>, FALSE) >> ELSE <<>>)
                  /\ returns' = Append(returns,
                        IF n < Len(files)
                        THEN ErrorReply(frame.op, "except", "[Errno 28] No space left on device")
                        ELSE Reply(IF frame.op = "main.analyze_component"
                                   THEN "AnalyzeResponse" ELSE "dict",
                                   TRUE, TRUE, FALSE, None,
                                   << IF frame.op = "main.analyze_component"
                                      THEN "Analysis complete"
                                      ELSE "Implementation plan generated and saved" >>,
                                   o.text, files))
    /\ frame' = [frame EXCEPT !.pc = AfterReturn]
    /\ UNCHANGED request
    /\ UNCHANGED << agentVars, concVars, urlVars, mcpVars, flaskVars >>

\* The caller that wraps the operation builds its own answer: run_agent
\* from the text the agent returned, the HTTP clients from the response of
\* the backend, whose status is 200 whatever dictionary the handler returned.
Respond ==
    /\ frame.pc = "respond"
    /\ LET inner == returns[Len(returns)] IN
       returns' = Append(returns,
           IF request.entry = "/agent"
           THEN Reply("AgentResponse", TRUE, TRUE, FALSE, None, inner.text, NoneStr, <<>>)
           ELSE Reply("dict", TRUE, TRUE, FALSE, None,
                      << IF request.entry = "bridge.analyze_figma_link"
                         THEN "Analysis complete"
                         ELSE "Figma component analyzed successfully" >>,
                      inner.plan, inner.files))
    /\ frame' = [frame EXCEPT !.pc = "done"]
    /\ UNCHANGED << request, effects >>
    /\ UNCHANGED << agentVars, concVars, urlVars, mcpVars, flaskVars >>

ApiInit ==
    /\ request \in Requests
    /\ frame = StartFrame(request)
    /\ effects = <<>>
    /\ returns = <<>>
    /\ AgentIdle /\ ConcIdle /\ UrlIdle /\ McpIdle /\ FlaskIdle

ApiNext ==
    \/ Route
    \/ ParseLink
    \/ GeneralQuery
    \/ Post
    \/ ExtractLink
    \/ Fetch
    \/ ModelAndPersist
    \/ Respond

ApiSpec == ApiInit /\ [][ApiNext]_vars

\* ======================================================= the Flask route
\*
\* generate (app.py 165-178): one request to /generate, served by one run of
\* deep_agent.  Before the call deep_agent has no locals (pc = "idle").

\* The JSON bodies of a request.
Bodies ==
    { JsonBody("object", FALSE, None) }
    \cup { JsonBody("object", TRUE, p) : p \in Prompts \cup { "", None } }
    \cup { JsonBody("array", FALSE, None), JsonBody("null", FALSE, None) }

\* data = request.json; prompt = data.get("prompt"); if not prompt: 400;
\* else deep_agent(prompt) is called.  A body that is no object has no
\* method get: the AttributeError is raised before the try statement, the
\* handler returns nothing and the framework answers with its own page.
Receive ==
    /\ exchange.at = "received"
    /\ LET data == exchange.body
           prompt == IF data.has_prompt THEN data.prompt ELSE None
       IN IF data.kind # "object"
          THEN /\ exchange' = Exchange("sent", data, 500, "html", "Internal Server Error")
               /\ UNCHANGED agentVars
          ELSE IF prompt \in { None, "" }
          THEN /\ exchange' = Exchange("sent", data, 400, "error", "Prompt is required")
               /\ UNCHANGED agentVars
          ELSE /\ exchange' = [exchange EXCEPT !.at = "running"]
               /\ pc' = "start"
               /\ user_prompt' = prompt
               /\ messages' = SeedMessages(prompt)
               /\ UNCHANGED << message, idx, result, error, modelCalls, responses, toolLog >>
    /\ UNCHANGED << concVars, urlVars, mcpVars, apiVars >>

\* return jsonify({"response": result}), or in the except branch
\* jsonify({"error": str(e)}), 500.
Send ==
    /\ exchange.at = "running"
    /\ pc \in { "returned", "raised" }
    /\ exchange' = IF pc = "returned"
                   THEN Exchange("sent", exchange.body, HTTP_OK, "response", result)
                   ELSE Exchange("sent", exchange.body, 500, "error", error.text)
    /\ UNCHANGED agentVars
    /\ UNCHANGED << concVars, urlVars, mcpVars, apiVars >>

FlaskInit ==
    /\ exchange \in { Exchange("received", b, 0, None, None) : b \in Bodies }
    /\ pc = "idle"
    /\ user_prompt = None
    /\ messages = <<>>
    /\ message = NoMessage
    /\ idx = 0
    /\ result = Absent
    /\ error = NoError
    /\ modelCalls = <<>>
    /\ responses = <<>>
    /\ toolLog = <<>>
    /\ ConcIdle /\ UrlIdle /\ McpIdle /\ ApiIdle

FlaskNext ==
    \/ Receive
    \/ Next
    \/ Send

FlaskSpec == FlaskInit /\ [][FlaskNext]_vars

\* =============================================================== claims

Terminated == pc \in {"returned", "raised"}

\* The first completion succeeded and its message is in hand.
FirstOk == Len(responses) >= 1 /\ responses[1].status_code = HTTP_OK

\* The tool calls the first response requested.
Requested == IF message.tc_kind = "list" THEN message.tool_calls ELSE <<>>

IsToolMsg(m) == m.role = "tool"
ToolMsgs(msgs) == SelectSeq(msgs, IsToolMsg)

IsPrefix(s, t) == Len(s) <= Len(t) /\ SubSeq(t, 1, Len(s)) = s

\* C1: when the first model response carries no tool_calls, deep_agent has
\* issued exactly one model call and returned that response's content
\* unchanged; no tool was executed and the conversation is still the seed.
C1_NoToolsSingleCall ==
    (FirstOk /\ responses[1].message.tc_kind = "absent") =>
        /\ pc = "returned"
        /\ result = responses[1].message.content
        /\ Len(modelCalls) = 1
        /\ Len(responses) = 1
        /\ toolLog = <<>>
        /\ messages = SeedMessages(user_prompt)

C1_Witness ==
    /\ FirstOk
    /\ responses[1].message.tc_kind = "absent"
    /\ pc = "returned"
    /\ result = "# Login Screen"

\* C2: when the first response requests N >= 1 tool calls, all registered and
\* all with decodable arguments, the conversation sent with the second model
\* call holds exactly N tool-role messages, the k-th carrying the id of the
\* k-th requested call.
C2_ToolMessagesCorrelated ==
    ( /\ Len(modelCalls) = 2
      /\ Len(Requested) >= 1
      /\ \A k \in 1..Len(Requested) :
            /\ Requested[k].function.name \in {TOOLS_SCHEMA[i] : i \in 1..Len(TOOLS_SCHEMA)}
            /\ json_loads(Requested[k].function.arguments).ok ) =>
        LET sent == ToolMsgs(modelCalls[2].messages) IN
        /\ Len(sent) = Len(Requested)
        /\ \A k \in 1..Len(Requested) : sent[k].tool_call_id = Requested[k].id

C2_Witness ==
    /\ Len(modelCalls) = 2
    /\ Len(Requested) = 2
    /\ Requested[1].id # Requested[2].id
    /\ Len(ToolMsgs(modelCalls[2].messages)) = 2

\* What is left of an invocation: a natural number every step lowers.
Rank ==
    CASE pc = "start"    -> MaxCalls + 4
      [] pc = "await1"   -> MaxCalls + 3
      [] pc = "dispatch" -> IF Len(Requested) >= idx THEN Len(Requested) - idx + 3 ELSE 2
      [] pc = "await2"   -> 1
      [] OTHER           -> 0

\* C3: every invocation of deep_agent terminates after at most two model
\* calls: at most two calls are ever posted, an invocation that has not
\* returned or raised can always take a step, and every step lowers Rank, a
\* natural number, so that no invocation takes more than MaxCalls + 4 steps.
C3_TerminatesWithinTwoCalls ==
    /\ [](Len(modelCalls) <= 2)
    /\ [](Rank \in 0..(MaxCalls + 4))
    /\ [](Terminated \/ ENABLED Next)
    /\ [][Rank' < Rank]_vars

C3_Witness == Terminated /\ Len(modelCalls) = 2 /\ Len(responses) = 2

\* C4: if the second model response itself contains tool_calls, deep_agent
\* fails with an error and returns no value.
C4_SecondRoundToolCallsRejected ==
    ( /\ Len(responses) = 2
      /\ responses[2].status_code = HTTP_OK
      /\ responses[2].message.tc_kind # "absent" ) =>
        /\ pc = "raised"
        /\ result = Absent

\* C5: if any tool call of the first response names an unregistered tool,
\* deep_agent ends with the unknown-tool error, with no answer and no second
\* model call, wherever the unknown call stands among the requested calls.
C5_UnknownToolFails ==
    ( /\ FirstOk
      /\ \E k \in 1..Len(Requested) : Requested[k].function.name # "get_design_context" ) =>
        /\ result = Absent
        /\ Len(modelCalls) = 1
        /\ Terminated =>
              /\ pc = "raised"
              /\ error.type = "ValueError"

\* C6: the second model call is issued only after the first response has
\* arrived and every tool call it requested has been executed, in order,
\* and its tool-result message appended to the conversation that is sent.
C6_SecondCallAfterAllTools ==
    Len(modelCalls) = 2 =>
        /\ FirstOk
        /\ Len(toolLog) = Len(Requested)
        /\ \A k \in 1..Len(Requested) :
              /\ toolLog[k].call = k
              /\ ~toolLog[k].raised
              /\ toolLog[k].model_calls = 1
              /\ \E i \in 1..Len(modelCalls[2].messages) :
                    /\ modelCalls[2].messages[i].role = "tool"
                    /\ modelCalls[2].messages[i].tool_call_id = Requested[k].id
                    /\ modelCalls[2].messages[i].content =
                          json_dumps(get_design_context(toolLog[k].arguments.frame_id))

C6_Witness ==
    /\ Len(modelCalls) = 2
    /\ Len(Requested) = 2
    /\ Len(toolLog) = 2

\* C7: the conversation is append-only: every step leaves the previous
\* conversation as a prefix of the new one, and the seed system and user
\* messages stay at positions 1 and 2.
C7_AppendOnly ==
    /\ [](SubSeq(messages, 1, 2) = SeedMessages(user_prompt))
    /\ [][IsPrefix(messages, messages')]_vars

C7_Witness == Len(messages) = 6 /\ pc = "returned"

\* C8: the conversation sent with the second model call is longer than the
\* one sent with the first by twice the number of requested tool calls.
C8_LengthGrowsByTwoPerCall ==
    Len(modelCalls) = 2 =>
        Len(modelCalls[2].messages) =
            Len(modelCalls[1].messages) + 2 * Len(Requested)

C8_Witness ==
    /\ Len(modelCalls) = 2
    /\ Len(Requested) = 2
    /\ Len(modelCalls[2].messages) = 6

\* C9: a non-success response to either model call is fatal: it is the last
\* response received, deep_agent has raised with it and returned nothing, the
\* call was not posted again, and no tool ran and no model call was posted
\* after it.
C9_ModelFailureFatal ==
    \A k \in 1..Len(responses) :
        responses[k].status_code # HTTP_OK =>
            /\ k = Len(responses)
            /\ pc = "raised"
            /\ error = Raise("Exception", responses[k].text)
            /\ result = Absent
            /\ Len(modelCalls) = k
            /\ \A j \in 1..Len(toolLog) : toolLog[j].responses < k

C9_Witness ==
    /\ Len(responses) = 2
    /\ responses[2].status_code = 429
    /\ pc = "raised"
    /\ Len(toolLog) >= 1

\* C10: if the arguments of a requested tool call cannot be decoded, the loop
\* does not abort: it appends a tool-role message for that call's id and goes
\* on to the second model call.
C10_ParseFailureNotFatal ==
    \A k \in 1..Len(Requested) :
        ( /\ ~json_loads(Requested[k].function.arguments).ok
          /\ k <= idx
          /\ (k = idx => pc # "dispatch") ) =>
            /\ error.type # "JSONDecodeError"
            /\ \E i \in 1..Len(messages) :
                  /\ messages[i].role = "tool"
                  /\ messages[i].tool_call_id = Requested[k].id

\* C11: when the handler of a registered tool raises, the failure becomes
\* the content of a tool-role message for that call's id and deep_agent does
\* not fail because of it.
C11_ToolFailureAbsorbed ==
    \A j \in 1..Len(toolLog) :
        ( /\ toolLog[j].raised
          /\ toolLog[j].tool_name = "get_design_context" ) =>
            /\ error.type # "AttributeError"
            /\ \E i \in 1..Len(messages) :
                  /\ messages[i].role = "tool"
                  /\ messages[i].tool_call_id = Requested[toolLog[j].call].id

AllRegistered ==
    \A k \in 1..Len(Requested) : Requested[k].function.name = "get_design_context"

\* C12: when several tool calls are requested (all of registered tools) and
\* one of them fails, every sibling call still contributes its own tool-role
\* message: once deep_agent has ended, of each requested call there is one.
C12_SiblingsStillRun ==
    ( /\ Terminated
      /\ FirstOk
      /\ Len(Requested) >= 2
      /\ AllRegistered ) =>
        /\ Len(ToolMsgs(messages)) = Len(Requested)
        /\ \A k \in 1..Len(Requested) :
              ToolMsgs(messages)[k].tool_call_id = Requested[k].id

\* C13: the first model call carries the complete tool schema with the
\* tool-choice policy "auto"; the second carries neither tools nor a
\* tool-choice field.
C13_ToolsOnFirstCallOnly ==
    /\ Len(modelCalls) >= 1 =>
          /\ modelCalls[1].has_tools
          /\ modelCalls[1].tools = TOOLS_SCHEMA
          /\ modelCalls[1].tool_choice = "auto"
    /\ Len(modelCalls) >= 2 =>
          /\ ~modelCalls[2].has_tools
          /\ modelCalls[2].tool_choice = Absent

C13_Witness ==
    /\ Len(modelCalls) = 2
    /\ Len(Requested) >= 1
    /\ modelCalls[1].has_tools
    /\ ~modelCalls[2].has_tools

\* C14: a first response whose tool_calls is present but empty (an empty
\* list or null) is final: its content is returned, no second model call is
\* posted and nothing is raised.
C14_EmptyToolCallsFinal ==
    ( /\ FirstOk
      /\ responses[1].message.tc_kind # "absent"
      /\ responses[1].message.tool_calls = <<>> ) =>
        /\ Len(modelCalls) = 1
        /\ pc # "raised"
        /\ Terminated => result = responses[1].message.content

\* C15: when the first response requests at least one tool call and both
\* model calls succeed, deep_agent returns exactly the content of the second
\* response.
C15_ReturnsSecondContent ==
    ( /\ Len(responses) = 2
      /\ responses[1].status_code = HTTP_OK
      /\ responses[2].status_code = HTTP_OK
      /\ Len(Requested) >= 1 ) =>
        /\ pc = "returned"
        /\ result = responses[2].message.content

C15_Witness ==
    /\ Len(responses) = 2
    /\ Len(Requested) >= 1
    /\ pc = "returned"
    /\ result = "# Login Screen"
    /\ responses[1].message.content = None

\* C16: for a requested call get_design_context with frame_id X, the
\* conversation sent with the second model call holds a tool-role message
\* for that call whose content decodes to exactly the record the tool
\* returned, and that record's frame_id is X.
C16_DesignRecordEmbedded ==
    Len(modelCalls) = 2 =>
        \A k \in 1..Len(Requested) :
            LET arguments == json_loads(Requested[k].function.arguments) IN
            ( /\ Requested[k].function.name = "get_design_context"
              /\ arguments.ok
              /\ arguments.type = "dict"
              /\ arguments.frame_id # None ) =>
                /\ toolLog[k].value.frame_id = arguments.frame_id
                /\ \E i \in 1..Len(modelCalls[2].messages) :
                      /\ modelCalls[2].messages[i].role = "tool"
                      /\ modelCalls[2].messages[i].tool_call_id = Requested[k].id
                      /\ json_loads_record(modelCalls[2].messages[i].content)
                            = toolLog[k].value

C16_Witness ==
    /\ Len(modelCalls) = 2
    /\ Len(Requested) = 2
    /\ json_loads(Requested[1].function.arguments).frame_id = "X"
    /\ json_loads(Requested[2].function.arguments).frame_id = "Y"
    /\ json_loads_record(modelCalls[2].messages[6].content).frame_id = "Y"

\* C19: when a model call receives a non-success response, the error that
\* leaves deep_agent carries the response status and the response body.
C19_ErrorCarriesStatusAndBody ==
    \A k \in 1..Len(responses) :
        ( /\ responses[k].status_code # HTTP_OK
          /\ pc = "raised" ) =>
            /\ \E i \in 1..Len(ExceptionArgs(error)) :
                  ExceptionArgs(error)[i] = responses[k].text
            /\ \E i \in 1..Len(ExceptionArgs(error)) :
                  ExceptionArgs(error)[i] = ToString(responses[k].status_code)

\* The messages of request p's own first response: the assistant message
\* and the results of the tool calls it requested.
OwnMessage(p, m) ==
    \/ m = run[p].message
    \/ /\ m.role = "tool"
       /\ \E k \in 1..Len(run[p].message.tool_calls) :
             m.tool_call_id = run[p].message.tool_calls[k].id

\* C17: conversations are not shared between requests: whatever the
\* interleaving of two concurrent deep_agent invocations, every conversation
\* one of them sends to the model starts with its own seed (its own user
\* request) and holds, after it, only messages of its own first response.
C17_ConversationsNotShared ==
    \A p \in Procs :
        \A c \in 1..Len(run[p].sent) :
            LET msgs == run[p].sent[c].messages IN
            /\ SubSeq(msgs, 1, 2) = SeedMessages(PromptOf(p))
            /\ \A i \in 3..Len(msgs) : OwnMessage(p, msgs[i])
            /\ Len(msgs) = IF c = 1 THEN 2 ELSE 2 + 2 * Len(run[p].message.tool_calls)

C17_Witness ==
    /\ \A p \in Procs :
          /\ run[p].pc = "await2"
          /\ Len(run[p].sent) = 2
          /\ Len(run[p].sent[2].messages) = 6
    /\ Len(heap[1]) = 6
    /\ Len(heap[2]) = 6

\* C20: for every link in one of the documented formats (/file/ or /design/
\* path, node-id given as 123-456 or 123%3A456, or no node-id), parse_url
\* returns is_valid = true, file_key equal to the path segment after /file/
\* or /design/, and node_id = component_id = "123:456" when a node-id is
\* given and both null when it is not.
C20_DocumentedLinksParsed ==
    parsed.returned =>
        \A kind \in Kinds, key \in Keys, name \in Names :
            /\ figma_url = DocLink(kind, key, name, <<>>) =>
                  /\ parsed.is_valid
                  /\ parsed.file_key = key
                  /\ parsed.node_id = NoneStr
                  /\ parsed.component_id = NoneStr
            /\ \A n \in NodeParts, t \in Trailers :
                  figma_url \in { DocLink(kind, key, name, Hyphenated(n) \o t),
                                  DocLink(kind, key, name, Encoded(n) \o t) } =>
                      /\ parsed.is_valid
                      /\ parsed.file_key = key
                      /\ parsed.node_id = << n[1], ":", n[2] >>
                      /\ parsed.component_id = << n[1], ":", n[2] >>

C20_Witness ==
    /\ figma_url = DocLink(FILE, << "abc123" >>, << "MCP", "-", "Test" >>,
                           Encoded(<< "123", "456" >>))
    /\ parsed.returned
    /\ parsed.node_id = << "123", ":", "456" >>
    /\ parsed.file_key = << "abc123" >>

\* C22: in the conversation sent with the second model call, every tool-role
\* message is immediately preceded by the assistant message that requested
\* it (one whose tool_calls holds an entry with the tool message's
\* tool_call_id), and no tool-role message stands before the first assistant
\* message.
C22_ToolFollowsItsRequest ==
    Len(modelCalls) = 2 =>
        LET msgs == modelCalls[2].messages IN
        \A i \in 1..Len(msgs) :
            msgs[i].role = "tool" =>
                /\ i > 1
                /\ msgs[i - 1].role = "assistant"
                /\ msgs[i - 1].tc_kind = "list"
                /\ \E k \in 1..Len(msgs[i - 1].tool_calls) :
                      msgs[i - 1].tool_calls[k].id = msgs[i].tool_call_id
                /\ \E a \in 1..(i - 1) : msgs[a].role = "assistant"

C22_Witness ==
    /\ Len(modelCalls) = 2
    /\ Len(modelCalls[2].messages) = 6
    /\ modelCalls[2].messages[4].role = "tool"
    /\ modelCalls[2].messages[6].role = "tool"
    /\ modelCalls[2].messages[4].tool_call_id # modelCalls[2].messages[6].tool_call_id

C24_FirstCallSendsSeed ==
    Len(modelCalls) >= 1 =>
        LET msgs == modelCalls[1].messages IN
        /\ Len(msgs) = 2
        /\ msgs[1].role = "system"
        /\ msgs[1].content = SYSTEM_PROMPT
        /\ msgs[2].role = "user"
        /\ msgs[2].content = user_prompt
        /\ \A i \in 1..2 : msgs[i].tc_kind = "absent" /\ msgs[i].tool_call_id = Absent

C24_Witness ==
    /\ Len(modelCalls) = 2
    /\ modelCalls[1].messages[2].content = "get design data for frame X and summarize it"
    /\ Len(modelCalls[2].messages) > 2

\* The requested call k names get_design_context and its arguments decode
\* to a mapping, whatever its keys.
MappingCall(k) ==
    /\ Requested[k].function.name = "get_design_context"
    /\ json_loads(Requested[k].function.arguments).ok
    /\ json_loads(Requested[k].function.arguments).type = "dict"

\* C25: arguments are not validated against the declared parameter schema: a
\* get_design_context call whose decoded arguments are a mapping without the
\* required frame_id, or with extra keys, is dispatched like any other and
\* yields a normal tool-result message: deep_agent never fails at such a
\* call, and once past it the conversation holds the serialized record for
\* the call's id.
C25_ArgumentsNotValidated ==
    \A k \in 1..Len(Requested) :
        MappingCall(k) =>
            /\ ~(pc = "raised" /\ Len(responses) = 1 /\ idx = k)
            /\ k < idx =>
                  /\ ~toolLog[k].raised
                  /\ \E i \in 1..Len(messages) :
                        /\ messages[i].role = "tool"
                        /\ messages[i].tool_call_id = Requested[k].id
                        /\ messages[i].content = json_dumps(get_design_context(
                               json_loads(Requested[k].function.arguments).frame_id))

C25_Witness ==
    /\ pc = "returned"
    /\ Len(Requested) = 2
    /\ Requested[1].function.arguments = "{}"
    /\ Requested[2].function.arguments = "{\"frame_id\": \"X\", \"zoom\": 2}"
    /\ MappingCall(1) /\ MappingCall(2)
    /\ json_loads_record(messages[4].content).frame_id = None
    /\ json_loads_record(messages[6].content).frame_id = "X"

\* C21: round trip: for every non-empty file key k and every component id c
\* in colon form (or c absent), extract_from_share_link(format_for_api(k, c))
\* returns (k, c).
C21_FormatParseRoundTrip ==
    parsed.returned =>
        \A k \in FormatKeys, c \in FormatIds :
            figma_url = format_for_api(k, c) =>
                /\ extract_from_share_link(figma_url) = << k, c >>
                /\ << parsed.file_key, parsed.component_id >> = << k, c >>

C21_Witness ==
    /\ figma_url = format_for_api(<< "0Ab9" >>, << "1", ":", "2", ":", "3" >>)
    /\ Contains(figma_url, << "1", "-", "2", "-", "3" >>)
    /\ parsed.returned
    /\ parsed.component_id = << "1", ":", "2", ":", "3" >>

\* C18: every advertised tool name has an executable handler: execute_tool
\* dispatches each name of TOOLS_SCHEMA, and call_tool (with the access token
\* set) dispatches each name list_tools returns instead of answering it with
\* the "Unknown tool" error.
C18_AdvertisedToolsDispatched ==
    /\ \A i \in 1..Len(TOOLS_SCHEMA) :
          \A a \in { x \in ArgStrings : json_loads(x).ok } :
              execute_tool(TOOLS_SCHEMA[i], json_loads(a)).error.type # "ValueError"
    /\ ( /\ mcp_result.returned
         /\ mcp_call.figma_token \notin { None, "" }
         /\ \E i \in 1..Len(list_tools) : list_tools[i] = mcp_call.tool_name ) =>
           ~( /\ mcp_result.has_error
              /\ mcp_result.error = "Unknown tool: " \o mcp_call.tool_name )

\* ---------------------------------------------- claims on the link pipeline

\* An error outcome: an error text of the agent, a dictionary with the key
\* "error", or a response whose success is false.
ErrorOutcome(r) ==
    IF r.kind = "str" THEN r.text[1] = ERR
    ELSE r.has_error \/ (r.has_success /\ ~r.success)

Kinds_(k) == { i \in 1..Len(effects) : effects[i].kind = k }

\* The operations C26 and C29 are about.
PipelineOps ==
    { "main.generate_implementation_plan", "main.analyze_component",
      "agent.analyze_component", "agent.generate_plan" }

\* C26: in /generate-plan, /analyze and the agent's analyze_component and
\* generate_plan the order is fetch, model, persist: the model is called only
\* after a fetch that gave no error record, a file is written only after a
\* model call that returned, and when the fetch gives an error record the
\* handler returns an error outcome with no model call and no file write.
C26_FetchModelPersist ==
    frame.op \in PipelineOps =>
        /\ \A i \in Kinds_("model") :
              \E j \in Kinds_("fetch") : j < i /\ effects[j].ok
        /\ \A i \in Kinds_("write") :
              \E j \in Kinds_("model") : j < i /\ effects[j].ok
        /\ \A j \in Kinds_("fetch") :
              ~effects[j].ok =>
                  /\ Kinds_("model") = {}
                  /\ Kinds_("write") = {}
                  /\ returns # <<>>
                  /\ ErrorOutcome(returns[1])
        /\ Cardinality(Kinds_("fetch")) <= 1
        /\ Cardinality(Kinds_("model")) <= 1

C26_Witness ==
    /\ request.entry = "/generate-plan"
    /\ frame.pc = "done"
    /\ Len(effects) = 5
    /\ effects[1].kind = "fetch"
    /\ effects[2].kind = "model"
    /\ effects[5].kind = "write"
    /\ effects[5].name = "task"
    /\ effects[5].ok
    /\ ~ErrorOutcome(returns[1])

\* The request holds a URL: http:// or https:// and a character after it
\* that is no blank.
HasUrl(text) ==
    \E i \in 1..Len(text) :
        /\ text[i] \in {"http", "https"}
        /\ MatchAt(text, << ":", "/", "/" >>, i + 1)
        /\ i + 4 <= Len(text)
        /\ text[i + 4] # " "

IsOp(e) == e.kind = "op"

HasWord(text, w) == \E i \in 1..Len(text) : lower(text)[i] = w

\* C27: LangChainDeepAgent.run invokes exactly one operation per request:
\* with a URL in the text, parse_link when the text contains "parse", else
\* analyze_component when it contains "analyze", else generate_plan when it
\* contains "plan", "implement" or "generate", else analyze_component;
\* without a URL, process_general_query.
C27_RunRoutesOnce ==
    request.entry \in RunEntries =>
        LET text == Query(request.words, request.link)
            chosen == SelectSeq(effects, IsOp)
        IN IF frame.pc = "route" THEN chosen = <<>>
           ELSE /\ Len(chosen) = 1
                /\ chosen[1].name =
                     IF HasUrl(text)
                     THEN IF HasWord(text, "parse") THEN "agent.parse_link"
                          ELSE IF HasWord(text, "analyze") THEN "agent.analyze_component"
                          ELSE IF \/ HasWord(text, "plan")
                                  \/ HasWord(text, "implement")
                                  \/ HasWord(text, "generate")
                               THEN "agent.generate_plan"
                               ELSE "agent.analyze_component"
                     ELSE "agent.process_general_query"

C27_Witness ==
    /\ request.entry = "agent.run"
    /\ request.words = << "Parse", " ", "and", " ", "Analyze" >>
    /\ request.link = SampleLink(<< "MCP", "-", "Test" >>)
    /\ frame.pc = "done"
    /\ effects = << Effect("op", "agent.parse_link", TRUE) >>
    /\ ~ErrorOutcome(returns[1])

FigmaQueryLinks == { l \in QueryLinks : Contains(l, << "www.figma.com" >>) }

\* C28: the operation run chooses depends only on the words of the request
\* outside the link: the same words with any other Figma link are routed to
\* the operation this request was routed to.
C28_RouteIgnoresLink ==
    ( /\ request.entry \in RunEntries
      /\ frame.pc # "route"
      /\ request.link \in FigmaQueryLinks ) =>
        \A l \in FigmaQueryLinks :
            run_route(Query(request.words, l)) = frame.op

\* C29: a link from which no file key or no node id can be extracted never
\* reaches Figma or the model: /analyze-from-link, /generate-plan-from-link
\* and the agent's analyze_component and generate_plan return an error
\* outcome for it without a fetch, a model call or a file write.
C29_BadLinkStopsEarly ==
    ( /\ frame.op \in PipelineOps
      /\ request.entry \notin DirectEntries
      /\ frame.pc \notin { "post", "parse" }
      /\ \/ Falsy(extract_from_share_link(frame.link)[1])
         \/ Falsy(extract_from_share_link(frame.link)[2]) ) =>
        /\ Kinds_("fetch") = {}
        /\ Kinds_("model") = {}
        /\ Kinds_("write") = {}
        /\ returns # <<>>
        /\ ErrorOutcome(returns[1])
        /\ frame.pc \in { "done", "respond" }

C29_Witness ==
    /\ request.entry = "/analyze-from-link"
    /\ request.link = DocLink(FILE, << "abc123" >>, << "name" >>, <<>>)
    /\ frame.pc = "done"
    /\ effects = <<>>
    /\ returns[1].has_error
    /\ returns[1].error = "Could not extract component ID from link."

\* C30: FigmaMCPBridge.analyze_figma_link and the tool analyze_figma_component
\* return success = true only if the backend generated a plan: when the
\* /generate-plan-from-link handler ended in an error outcome they return
\* success = false.
C30_ClientSuccessMeansPlan ==
    ( /\ request.entry \in HttpClients
      /\ frame.pc = "done" ) =>
        LET answer == returns[Len(returns)] IN
        /\ (Len(returns) = 2 /\ ErrorOutcome(returns[1])) => ~answer.success
        /\ answer.success =>
              /\ Len(returns) = 2
              /\ returns[1].has_success
              /\ returns[1].success
              /\ returns[1].plan # NoneStr

\* C31: the /agent endpoint returns success = false whenever the operation
\* the agent ran for the query ended in an error outcome (a link that cannot
\* be parsed, a fetch error, a model error); success = true only with the
\* normal result of the operation.
C31_AgentSuccessMeansResult ==
    ( /\ request.entry = "/agent"
      /\ frame.pc = "done" ) =>
        ( ErrorOutcome(returns[1]) => ~returns[Len(returns)].success )

\* C32: FigmaMCPClient.call_tool never raises: for every tool name, argument
\* record, token and Figma outcome it returns a dictionary that names the
\* tool and holds exactly one of the keys "result" and "error"; and
\* get_component_info returns a record with the key "error" exactly when
\* call_tool returned an error record (a result record has no such key).
C32_CallToolAlwaysAnswers ==
    mcp_result.tool # NoResult.tool =>
        /\ mcp_result.returned
        /\ mcp_result.tool = mcp_call.tool_name
        /\ mcp_result.has_error # mcp_result.has_result
        /\ mcp_result.has_error => mcp_result.error # None
        /\ mcp_result.has_result => "error" \notin DOMAIN mcp_result.result
        /\ mcp_call.tool_name = "figma_extract_component_info" =>
              get_component_info(mcp_call).has_error = mcp_result.has_error

\* A call with a token and no component id: the AttributeError of
\* None.replace comes back as an error record, and so from get_component_info.
C32_Witness ==
    /\ mcp_call.tool_name = "figma_extract_component_info"
    /\ mcp_call.figma_token = "figd_token"
    /\ mcp_call.arguments.component_id = NoneStr
    /\ mcp_result.returned
    /\ mcp_result.has_error
    /\ ~mcp_result.has_result
    /\ mcp_result.error = NoneTypeReplace
    /\ get_component_info(mcp_call).has_error

\* C33: parse_url reports is_valid = true only when it extracted a file key
\* that is not empty: a link with nothing, or an empty part, after /file/ or
\* /design/ is not valid.
C33_ValidMeansKey ==
    parsed.returned => (parsed.is_valid => ~Falsy(parsed.file_key))

\* The text written to the file name in this run, <<>> if it was not written.
TextOf(name) ==
    LET w == { i \in Kinds_("write") : effects[i].name = name /\ effects[i].ok }
    IN IF w = {} THEN <<>> ELSE effects[Min(w)].text

\* C34: when /generate-plan splits the plan into an implementation-plan file
\* and a task file nothing is dropped: the implementation part followed by
\* the task part is the whole text of the plan, wherever and however often
\* the marker "### Task" stands in it; and every successful run writes the
\* complete file with the whole text.
C34_SplitDropsNothing ==
    ( /\ request.entry = "/generate-plan"
      /\ frame.pc = "done"
      /\ returns[1].has_success
      /\ returns[1].success ) =>
        /\ \E i \in Kinds_("write") :
              /\ effects[i].name = "complete"
              /\ effects[i].ok
              /\ effects[i].text = returns[1].plan
        /\ Len(returns[1].files) = 3 =>
              TextOf("implementation_plan") \o TextOf("task") = returns[1].plan

\* C35: every request to /generate ends in exactly one of three outcomes:
\* status 400 with an error and no model call, exactly when the prompt is
\* missing or empty; status 200 with the text deep_agent returned; status 500
\* with the error text, exactly when deep_agent raised.
C35_ThreeOutcomes ==
    exchange.at = "sent" =>
        /\ \/ /\ exchange.status = 400
              /\ exchange.key = "error"
              /\ modelCalls = <<>>
           \/ /\ exchange.status = HTTP_OK
              /\ exchange.key = "response"
              /\ pc = "returned"
              /\ exchange.payload = result
           \/ /\ exchange.status = 500
              /\ exchange.key = "error"
              /\ pc = "raised"
              /\ exchange.payload = error.text
        /\ exchange.status = 400 <=>
              ( \/ ~exchange.body.has_prompt
                \/ exchange.body.prompt \in { None, "" } )

\* C36: the entry points agree on link parsing: for every link that
\* extract_figma_data accepts, extract_from_share_link returns the same file
\* key and the same node id, also when the node id is URL-encoded and when
\* the query follows the file key directly.
C36_ParsersAgree ==
    ( /\ parsed.returned
      /\ extracted.returned
      /\ ~extracted.raised ) =>
        KeyAndId(parsed) = << extracted.file_key, extracted.node_id >>

====
